---- MODULE Spec2Model ----
(***************************************************************************)
(* Model of the synthetic data loader src/src/sql/load_to_sqlite.py:       *)
(* the calendar resolver, the population and event-stream generators, the  *)
(* rollup aggregation and the table writer driven by main().               *)
(*                                                                         *)
(* Representation.                                                         *)
(*  - A term string 'YYYY-Fall' / 'YYYY-Spring' is the pair <<y, sem>>;    *)
(*    an intake string 'YYYY-Sep' / 'YYYY-Jan' is the pair <<y, month>>.   *)
(*    Comparing two such strings character by character (4-digit years)    *)
(*    is comparing the year, then the word ("Fall" < "Spring").            *)
(*  - A pd.Timestamp at midnight is the triple <<y, m, d>>.                *)
(*  - Names are strings, built by concatenation as the code builds them.   *)
(*  - The numpy generator is a deterministic function of its seed and of   *)
(*    the number of values it has produced so far: the variable rng        *)
(*    counts the values drawn, Raw(seed, k) is the k-th raw value.         *)
(*  - Floats: attendance_rate is kept as the exact quotient <<num, den>>;  *)
(*    scores are integers.                                                 *)
(***************************************************************************)
EXTENDS Integers, Sequences, FiniteSets, TLC

(***************************************************************************)
(* Bounds of the model.                                                    *)
(***************************************************************************)
MaxStudents == 2
MaxSeed == 2
MaxRuns == 2
SylCut == 2
MaxNames == 5
RetryFactor == 3

(***************************************************************************)
(* The state of one invocation of the loader and of the database file.     *)
(***************************************************************************)
VARIABLES
  pc,           \* the statement of main() that runs next
  args,         \* parse_args(): students, year_start, year_end, seed
  seed_used,    \* the seed the generator of this run was created with
  rng,          \* how many values the generator has handed out
  students, attendance, lms, assessments, events,   \* the generated frames
  att_term, lms_term, df,                           \* the rollup frames
  con,          \* "none", "open" or "closed"
  db,           \* table name -> [exists, rows]
  idx,          \* table name -> the columns that have an index
  exit_code,    \* -1 while running, then the exit status of the process
  log,          \* the write_sqlite calls of this run: <<table, outcome>>
  run,          \* the number of this invocation
  prev,         \* what the previous invocation left: [args, db, idx, exit_code]
  call          \* a single call of one function on its own: [fn, arg, out]

frames == <<students, attendance, lms, assessments, events, att_term, lms_term, df>>
store == <<db, idx, log>>
vars == <<pc, args, seed_used, rng, frames, con, store, exit_code, run, prev, call>>

(***************************************************************************)
(* Program constants.                                                      *)
(***************************************************************************)
Programs == <<"Medicine", "Nursing", "Pharmacy">>

PROGRAM_DURATION ==
  [p \in {"Medicine", "Nursing", "Pharmacy"} |->
     CASE p = "Medicine" -> 6 [] p = "Nursing" -> 4 [] p = "Pharmacy" -> 5]

TableOrder ==
  <<"students", "attendance", "lms_activity", "assessments", "student_events",
    "attendance_term", "lms_term", "analytic_student_term">>

Tables == {TableOrder[i] : i \in 1..Len(TableOrder)}

(***************************************************************************)
(* Small helpers.                                                          *)
(***************************************************************************)
Min2(a, b) == IF a < b THEN a ELSE b
Max2(a, b) == IF a > b THEN a ELSE b
Clip(x, lo, hi) == Max2(lo, Min2(x, hi))
Range(s) == {s[i] : i \in 1..Len(s)}

\* the sum of s[lo..hi], by halves
RECURSIVE SumRange(_, _, _)
SumRange(s, lo, hi) ==
  IF lo > hi THEN 0
  ELSE IF lo = hi THEN s[lo]
  ELSE LET mid == (lo + hi) \div 2
       IN SumRange(s, lo, mid) + SumRange(s, mid + 1, hi)

SumSeq(s) == SumRange(s, 1, Len(s))

\* the concatenation of ss[lo..hi], by halves
RECURSIVE FlattenRange(_, _, _)
FlattenRange(ss, lo, hi) ==
  IF lo > hi THEN <<>>
  ELSE IF lo = hi THEN ss[lo]
  ELSE LET mid == (lo + hi) \div 2
       IN FlattenRange(ss, lo, mid) \o FlattenRange(ss, mid + 1, hi)

Flatten(ss) == FlattenRange(ss, 1, Len(ss))

(***************************************************************************)
(* Calendar: dates and term_dates.                                         *)
(***************************************************************************)
IsLeap(y) == (y % 4 = 0 /\ y % 100 # 0) \/ y % 400 = 0

DaysInMonth(y, m) ==
  IF m = 2 THEN (IF IsLeap(y) THEN 29 ELSE 28)
  ELSE IF m \in {4, 6, 9, 11} THEN 30 ELSE 31

RECURSIVE DaysBeforeMonth(_, _)
DaysBeforeMonth(y, m) ==
  IF m = 1 THEN 0 ELSE DaysBeforeMonth(y, m - 1) + DaysInMonth(y, m - 1)

\* day of the year of a date, 1-based
DayOfYear(dt) == DaysBeforeMonth(dt[1], dt[2]) + dt[3]

DaysInYear(y) == IF IsLeap(y) THEN 366 ELSE 365

\* the date of day n (1-based, n may exceed the year's length) of year y
RECURSIVE DateOfDay(_, _, _)
DateOfDay(y, m, n) ==
  IF m > 12 THEN DateOfDay(y + 1, 1, n)
  ELSE IF n > DaysInMonth(y, m) THEN DateOfDay(y, m + 1, n - DaysInMonth(y, m))
  ELSE <<y, m, n>>

\* dt + timedelta(days=i), i >= 0
AddDays(dt, i) == DateOfDay(dt[1], 1, DayOfYear(dt) + i)

\* dt1 <= dt2 on timestamps
DateLeq(a, b) ==
  \/ a[1] < b[1]
  \/ a[1] = b[1] /\ a[2] < b[2]
  \/ a[1] = b[1] /\ a[2] = b[2] /\ a[3] <= b[3]

\* (d1 - d0).days for two dates of one year
DaysBetween(d0, d1) == DayOfYear(d1) - DayOfYear(d0)

term_dates(term) ==
  IF term[2] = "Fall"
    THEN << <<term[1], 9, 1>>, <<term[1], 12, 31>> >>
    ELSE << <<term[1], 1, 1>>, <<term[1], 6, 30>> >>

(***************************************************************************)
(* all_terms_for_program: duration_map.get(program, 4) pairs of            *)
(* (Fall, Spring), the first Fall one year before a Jan intake.            *)
(***************************************************************************)
DurationOf(program, duration_map) ==
  IF program \in DOMAIN duration_map THEN duration_map[program] ELSE 4

RECURSIVE TermLoop(_, _, _, _)
TermLoop(first_fall_year, k, n_years, terms) ==
  IF k >= n_years THEN terms
  ELSE LET fall_y == first_fall_year + k
           spring_y == fall_y + 1
       IN TermLoop(first_fall_year, k + 1, n_years,
                   Append(Append(terms, <<fall_y, "Fall">>), <<spring_y, "Spring">>))

\* variant: a Jan intake is not moved back to the previous Fall
FirstFallYear_NoJanShift(intake) == intake[1]

FirstFallYear(intake) ==
  IF intake[2] = "Jan" THEN intake[1] - 1 ELSE intake[1]

all_terms_for_program(intake, program, duration_map) ==
  TermLoop(FirstFallYear(intake), 0, DurationOf(program, duration_map), <<>>)

(***************************************************************************)
(* The random generator.  np.random.default_rng(seed) is a deterministic   *)
(* function of the seed; every call advances its state.  Raw(seed, k) is   *)
(* the raw value behind the k-th value it hands out (k counts from 0).     *)
(* Each distribution maps the raw value into its own support.              *)
(***************************************************************************)
\* variant: the generator is created without the seed, from the entropy of the
\* operating system, which differs from one process to the next
default_rng_unseeded(seed) == seed + run

default_rng(seed) == seed

Raw(seed, k) ==
  ((seed + 1) * 7919 + k * 613 + k * k * 31 + seed * k * 17 + (k \div 5) * 211) % 1009

\* rng.random(): a value in [0, 1), in hundredths
rng_random(seed, k) == Raw(seed, k) % 100

\* rng.choice(items, p=weights): weights in hundredths, summing to 100
RECURSIVE PickWeighted(_, _, _, _)
PickWeighted(items, weights, u, j) ==
  IF j >= Len(items) \/ u < weights[j] THEN items[j]
  ELSE PickWeighted(items, weights, u - weights[j], j + 1)

rng_choice_p(items, weights, seed, k) ==
  PickWeighted(items, weights, rng_random(seed, k), 1)

\* rng.choice(items): uniform
rng_choice(items, seed, k) == items[(Raw(seed, k) % Len(items)) + 1]

\* rng.integers(low, high): low <= value < high
rng_integers(low, high, seed, k) == low + (Raw(seed, k) % (high - low))

\* rng.beta(a, b): a value in [0, 1], in hundredths
rng_beta(seed, k) == Raw(seed, k) % 101

\* rng.binomial(n, p), p in hundredths: the number of successes among n trials,
\* trial j succeeding when its own value, derived from the raw value, is below p
rng_binomial(n, p, seed, k) ==
  Cardinality({j \in 1..n : (Raw(seed, k) * (2 * j + 1) + 37 * j) % 100 < p})

\* rng.normal(mu, sigma) in the unit of mu and sigma: mu + sigma * z,
\* z in -5.0 .. 5.0 by steps of 0.2
rng_normal(mu, sigma, seed, k) == mu + (sigma * ((Raw(seed, k) % 51) - 25)) \div 5

\* rng.poisson(lam): a count >= 0 (0 when lam = 0)
rng_poisson(lam, seed, k) == IF lam <= 0 THEN 0 ELSE Raw(seed, k) % 7

(***************************************************************************)
(* unique_names                                                            *)
(***************************************************************************)
first_syl ==
  <<"A", "Be", "Ca", "Da", "El", "Fa", "Gi", "Ha", "I", "Ja", "Ka", "La", "Ma",
    "Na", "O", "Pa", "Qi", "Ra", "Sa", "Ta", "Uma", "Va", "Wa", "Xa", "Ya", "Za">>

last_syl1 ==
  <<"Al", "Ben", "Car", "Dia", "Fern", "Gon", "Ham", "Ivan", "Jun", "Kim", "Lee",
    "Mor", "Nov", "Omar", "Park", "Quan", "Ross", "Sing", "Tan", "Umar", "Val",
    "Wang", "Xu", "Yam", "Zar">>

last_syl2 ==
  <<"son", "s", "ez", "ov", "ski", "sen", "Li", "chi", "yan", "man", "ford",
    "elli", "dell", "berg", "wala", "ova", "ian", "aro", "etti", "ato", "ino">>

middle ==
  <<"A", "B", "C", "D", "E", "F", "G", "H", "I", "J", "K", "L", "M", "N", "O",
    "P", "Q", "R", "S", "T", "U", "V", "W", "X", "Y", "Z">>

\* a namespace: the three syllable lists the combinations are built from
Syllables == [f |-> first_syl, l1 |-> last_syl1, l2 |-> last_syl2]

NamespaceSize(syl) == Len(syl.f) * Len(syl.l1) * Len(syl.l2)

\* combos[j] (0-based) before the shuffle: a outermost, c innermost
Combo(syl, j) ==
  LET c == j % Len(syl.l2)
      b == (j \div Len(syl.l2)) % Len(syl.l1)
      a == j \div (Len(syl.l2) * Len(syl.l1))
  IN << syl.f[a + 1], syl.l1[b + 1] \o syl.l2[c + 1] >>

RECURSIVE GCD(_, _)
GCD(a, b) == IF b = 0 THEN a ELSE GCD(b, a % b)

RECURSIVE CoprimeFrom(_, _)
CoprimeFrom(a, len) == IF GCD(a, len) = 1 THEN a ELSE CoprimeFrom(a + 1, len)

\* rng.shuffle(combos): a permutation of 0..len-1 fixed by the generator;
\* ShuffledIndex is the original index of the combo at position i.
ShuffledIndex(len, seed, k, i) ==
  LET stride == CoprimeFrom(1 + (Raw(seed, k) % len), len)
      shift == Raw(seed, k + 1) % len
  IN (stride * i + shift) % len

\* one iteration of the while loop on the combination combo, with mid the letter
\* rng.choice(middle) returns and suffix the number rng.integers(1, 9999)
\* returns if the last resort is taken; st = [i, out, used, pos]
NameIterWith(syl, combo, mid, suffix, st) ==
  LET len == NamespaceSize(syl)
      first == combo[1] \o "na"
      la == combo[2]
      candidate == first \o " " \o la \o " " \o mid \o "."
      fresh == candidate \notin st.used
      out1 == IF fresh THEN Append(st.out, candidate) ELSE st.out
      used1 == IF fresh THEN st.used \cup {candidate} ELSE st.used
      i1 == st.i + 1
      last_resort == i1 > len * 2
      candidate2 == first \o " " \o la \o " " \o mid \o "." \o ToString(suffix)
      fresh2 == candidate2 \notin used1
  IN IF ~last_resort
       THEN [i |-> i1, out |-> out1, used |-> used1, pos |-> st.pos + 1]
       ELSE [i |-> i1,
             out |-> IF fresh2 THEN Append(out1, candidate2) ELSE out1,
             used |-> IF fresh2 THEN used1 \cup {candidate2} ELSE used1,
             pos |-> st.pos + 2]

\* one iteration of the while loop with the draws of the seeded generator
NameIter(syl, seed, shuffle_pos, st) ==
  LET len == NamespaceSize(syl)
  IN NameIterWith(syl, Combo(syl, ShuffledIndex(len, seed, shuffle_pos, st.i % len)),
                  rng_choice(middle, seed, st.pos),
                  rng_integers(1, 9999, seed, st.pos + 1), st)

RECURSIVE NameLoop(_, _, _, _, _)
NameLoop(syl, n, seed, shuffle_pos, st) ==
  IF Len(st.out) >= n THEN st
  ELSE NameLoop(syl, n, seed, shuffle_pos, NameIter(syl, seed, shuffle_pos, st))

\* out[:n]
Prefix(s, n) ==
  IF n >= 0 THEN SubSeq(s, 1, Min2(n, Len(s)))
  ELSE SubSeq(s, 1, Max2(0, Len(s) + n))

\* unique_names(n, rng) with the generator at position pos:
\* [names, pos] where pos is the generator's position afterwards
unique_names(syl, n, seed, pos) ==
  LET st == NameLoop(syl, n, seed, pos,
                     [i |-> 0, out |-> <<>>, used |-> {}, pos |-> pos + 2])
  IN [names |-> Prefix(st.out, n), pos |-> st.pos, iterations |-> st.i]

(***************************************************************************)
(* Builders.  Each returns [rows, pos]: the table and the generator's      *)
(* position after the builder has drawn from it.                           *)
(***************************************************************************)
\* variant: np.arange(n_students), identifiers from 0
StudentIds_FromZero(n) == [i \in 1..n |-> i - 1]

\* np.arange(1, n_students + 1)
StudentIds(n) == [i \in 1..n |-> i]

\* variant: intakes are drawn up to year_end itself
latest_intake_YearEnd(y0, y1, max_dur) == Max2(y0, y1)

\* latest_intake = max(y0, y1 - max_dur)
latest_intake(y0, y1, max_dur) == Max2(y0, y1 - max_dur)

\* make_students over the namespace syl: the guard n >= 0 is the caller's (a
\* negative size raises)
make_students_in(syl, n, years, seed, pos) ==
  LET y0 == years[1]
      y1 == years[2]
      max_dur == Max2(Max2(PROGRAM_DURATION["Medicine"], PROGRAM_DURATION["Nursing"]),
                      PROGRAM_DURATION["Pharmacy"])
      earliest_intake == y0
      latest == latest_intake(y0, y1, max_dur)
      programs == [i \in 1..n |->
                     rng_choice_p(Programs, <<45, 35, 20>>, seed, pos + i - 1)]
      intake_years == [i \in 1..n |->
                     rng_integers(earliest_intake, latest + 1, seed, pos + n + i - 1)]
      intakes_mnth == [i \in 1..n |->
                     rng_choice_p(<<"Sep", "Jan">>, <<70, 30>>, seed, pos + 2 * n + i - 1)]
      nm == unique_names(syl, n, seed, pos + 3 * n)
      ages == [i \in 1..n |-> rng_integers(18, 45, seed, nm.pos + i - 1)]
      genders == [i \in 1..n |->
                     rng_choice_p(<<"F", "M">>, <<55, 45>>, seed, nm.pos + n + i - 1)]
  IN [rows |-> [i \in 1..n |->
                 [student_id |-> StudentIds(n)[i],
                  full_name |-> nm.names[i],
                  program |-> programs[i],
                  intake |-> <<intake_years[i], intakes_mnth[i]>>,
                  age |-> ages[i],
                  gender |-> genders[i],
                  enrol_date |-> IF intakes_mnth[i] = "Sep"
                                   THEN <<intake_years[i], 9, 1>>
                                   ELSE <<intake_years[i], 1, 15>>]],
      pos |-> nm.pos + 2 * n]

make_students(n, years, seed, pos) == make_students_in(Syllables, n, years, seed, pos)

\* variant: the duration table is not consulted, every program gets the default
TermsOf_DefaultDuration(r) == all_terms_for_program(r.intake, r.program, <<>>)

TermsOf(r) == all_terms_for_program(r.intake, r.program, PROGRAM_DURATION)

\* the 12 weekly rows of one (student, term); draws: base, then one per week
AttendanceOfTerm(r, term, seed, pos) ==
  LET base == Clip(rng_beta(seed, pos) + (IF r.program = "Medicine" THEN 3 ELSE 0), 5, 99)
  IN [week \in 1..12 |->
        [student_id |-> r.student_id, term |-> term, week |-> week, sessions |-> 5,
         attended |-> rng_binomial(5, base, seed, pos + week)]]

RECURSIVE AttendanceLoop(_, _, _, _, _)
AttendanceLoop(students_, si, ti, seed, acc) ==
  IF si > Len(students_) THEN acc
  ELSE LET terms == TermsOf(students_[si])
       IN IF ti > Len(terms) THEN AttendanceLoop(students_, si + 1, 1, seed, acc)
          ELSE AttendanceLoop(students_, si, ti + 1, seed,
                 [rows |-> acc.rows \o AttendanceOfTerm(students_[si], terms[ti], seed, acc.pos),
                  pos |-> acc.pos + 13])

make_attendance(students_, seed, pos) ==
  AttendanceLoop(students_, 1, 1, seed, [rows |-> <<>>, pos |-> pos])

\* dt.isoformat() of a midnight timestamp, and pd.to_datetime of that text
isoformat(dt) == <<dt[1], dt[2], dt[3], "T00:00:00">>
to_datetime(text) == <<text[1], text[2], text[3]>>

\* the daily rows of one (student, term); draws: base, then one per day
LmsOfTerm(r, term, seed, pos) ==
  LET d0 == term_dates(term)[1]
      d1 == term_dates(term)[2]
      days == DaysBetween(d0, d1) + 1
      base == Max2(8, rng_normal(30, 10, seed, pos))
      mult == IF r.program = "Medicine" THEN 110
              ELSE IF r.program = "Nursing" THEN 95 ELSE 100
  IN [i \in 1..days |->
        [student_id |-> r.student_id,
         activity_date |-> isoformat(AddDays(d0, i - 1)),
         clicks |-> Max2(0, rng_poisson(base * mult, seed, pos + i))]]

RECURSIVE LmsLoop(_, _, _, _, _)
LmsLoop(students_, si, ti, seed, acc) ==
  IF si > Len(students_) THEN acc
  ELSE LET terms == TermsOf(students_[si])
       IN IF ti > Len(terms) THEN LmsLoop(students_, si + 1, 1, seed, acc)
          ELSE LET rows == LmsOfTerm(students_[si], terms[ti], seed, acc.pos)
               IN LmsLoop(students_, si, ti + 1, seed,
                    [rows |-> acc.rows \o rows, pos |-> acc.pos + 1 + Len(rows)])

make_lms_activity(students_, seed, pos) ==
  LmsLoop(students_, 1, 1, seed, [rows |-> <<>>, pos |-> pos])

AssessmentOfTerm(r, term, seed, pos) ==
  [student_id |-> r.student_id, term |-> term,
   midterm |-> Clip(rng_normal(62, 15, seed, pos), 0, 100),
   final |-> Clip(rng_normal(68, 14, seed, pos + 1), 0, 100),
   late_submissions |-> rng_binomial(5, 12, seed, pos + 2)]

RECURSIVE AssessmentLoop(_, _, _, _, _)
AssessmentLoop(students_, si, ti, seed, acc) ==
  IF si > Len(students_) THEN acc
  ELSE LET terms == TermsOf(students_[si])
       IN IF ti > Len(terms) THEN AssessmentLoop(students_, si + 1, 1, seed, acc)
          ELSE AssessmentLoop(students_, si, ti + 1, seed,
                 [rows |-> Append(acc.rows,
                                  AssessmentOfTerm(students_[si], terms[ti], seed, acc.pos)),
                  pos |-> acc.pos + 3])

make_assessments(students_, seed, pos) ==
  AssessmentLoop(students_, 1, 1, seed, [rows |-> <<>>, pos |-> pos])

NoDetails == "None"

\* variant: the Intervention draw is made for every student, outside the
\* probation branch
InterventionDrawn_Unnested(probation, seed, pos) == rng_random(seed, pos + 1) < 60

\* the nested "if rng.random() < 0.6" of the probation branch
InterventionDrawn(probation, seed, pos) == probation /\ rng_random(seed, pos + 1) < 60

\* the events of one student: [rows, pos]
EventsOfStudent(r, seed, pos) ==
  LET enrol == r.enrol_date
      terms == TermsOf(r)
      enrolled == [student_id |-> r.student_id, event_type |-> "Enrolled",
                   event_date |-> enrol, details |-> NoDetails, term |-> terms[1]]
      probation == rng_random(seed, pos) < 18
      tprob == terms[Min2(1, Len(terms) - 1) + 1]
      intervention == InterventionDrawn(probation, seed, pos)
      pos1 == IF probation THEN pos + 2 ELSE pos + 1
      final_term == terms[Len(terms)]
      end_spring == term_dates(final_term)[2]
      outcome == rng_choice_p(<<"Graduated", "Withdrew", "Deferred">>, <<85, 10, 5>>,
                              seed, pos1)
  IN [rows |->
        <<enrolled>>
        \o (IF probation
              THEN <<[student_id |-> r.student_id, event_type |-> "On Probation",
                      event_date |-> AddDays(enrol, 75), details |-> "Low attendance",
                      term |-> tprob]>>
              ELSE <<>>)
        \o (IF intervention
              THEN <<[student_id |-> r.student_id, event_type |-> "Intervention",
                      event_date |-> AddDays(enrol, 85), details |-> "Advisor meeting",
                      term |-> tprob]>>
              ELSE <<>>)
        \o <<[student_id |-> r.student_id, event_type |-> outcome,
              event_date |-> end_spring, details |-> NoDetails, term |-> final_term]>>,
      pos |-> pos1 + 1]

RECURSIVE EventsLoop(_, _, _, _)
EventsLoop(students_, si, seed, acc) ==
  IF si > Len(students_) THEN acc
  ELSE LET ev == EventsOfStudent(students_[si], seed, acc.pos)
       IN EventsLoop(students_, si + 1, seed,
                     [rows |-> acc.rows \o ev.rows, pos |-> ev.pos])

make_events(students_, seed, pos) ==
  EventsLoop(students_, 1, seed, [rows |-> <<>>, pos |-> pos])

(***************************************************************************)
(* Rollups of main(): attendance_term, lms_term and the analytic join.     *)
(***************************************************************************)
\* term strings compare by year, then "Fall" < "Spring"
TermLt(a, b) == a[1] < b[1] \/ (a[1] = b[1] /\ a[2] = "Fall" /\ b[2] = "Spring")

\* the (student_id, term) group keys compare lexicographically
KeyLt(a, b) == a[1] < b[1] \/ (a[1] = b[1] /\ TermLt(a[2], b[2]))

RECURSIVE SortKeys(_)
SortKeys(keys) ==
  IF keys = {} THEN <<>>
  ELSE LET least == CHOOSE k \in keys : \A o \in keys \ {k} : KeyLt(k, o)
       IN <<least>> \o SortKeys(keys \ {least})

RECURSIVE SortInts(_)
SortInts(ints) ==
  IF ints = {} THEN <<>>
  ELSE LET least == CHOOSE k \in ints : \A o \in ints : k <= o
       IN <<least>> \o SortInts(ints \ {least})

\* attendance.groupby(["student_id","term"], as_index=False).agg(sum, sum):
\* one row per key, the keys sorted
AttendanceTerm(attendance_) ==
  LET keys == SortKeys({<<attendance_[i].student_id, attendance_[i].term>> :
                          i \in 1..Len(attendance_)})
  IN [g \in 1..Len(keys) |->
        LET grp == SelectSeq(attendance_,
                     LAMBDA r : r.student_id = keys[g][1] /\ r.term = keys[g][2])
        IN [student_id |-> keys[g][1], term |-> keys[g][2],
            total_sessions |-> SumSeq([i \in 1..Len(grp) |-> grp[i].sessions]),
            attended |-> SumSeq([i \in 1..Len(grp) |-> grp[i].attended])]]

\* pd.unique(column): the distinct values in order of first appearance
RECURSIVE UniqueInOrder(_, _)
UniqueInOrder(s, seen) ==
  IF s = <<>> THEN <<>>
  ELSE IF Head(s) \in seen THEN UniqueInOrder(Tail(s), seen)
  ELSE <<Head(s)>> \o UniqueInOrder(Tail(s), seen \cup {Head(s)})

\* lms["activity_date"] = pd.to_datetime(lms["activity_date"])
LmsParsed(lms_) ==
  [i \in 1..Len(lms_) |->
     [student_id |-> lms_[i].student_id,
      activity_date |-> to_datetime(lms_[i].activity_date),
      clicks |-> lms_[i].clicks]]

\* one piece of lms_term: the rows of the term's date range, summed by student
LmsPiece(lms_, term) ==
  LET lo == term_dates(term)[1]
      hi == term_dates(term)[2]
      inrange == SelectSeq(lms_, LAMBDA r : DateLeq(lo, r.activity_date)
                                            /\ DateLeq(r.activity_date, hi))
      sids == SortInts({inrange[i].student_id : i \in 1..Len(inrange)})
  IN [g \in 1..Len(sids) |->
        LET grp == SelectSeq(inrange, LAMBDA r : r.student_id = sids[g])
        IN [student_id |-> sids[g], term |-> term,
            clicks |-> SumSeq([i \in 1..Len(grp) |-> grp[i].clicks])]]

\* the list "pieces", one per term of att_term in order of first appearance
LmsPieces(lms_, att_term_) ==
  LET terms == UniqueInOrder([i \in 1..Len(att_term_) |-> att_term_[i].term], {})
  IN [t \in 1..Len(terms) |-> LmsPiece(lms_, terms[t])]

\* a row's values in the columns named by on
OnKey(r, on) == [c \in on |-> r[c]]

\* left.merge(right, on=on): inner join, left order kept, every match of a
\* left row in right order
InnerMerge(left, right, on) ==
  Flatten([i \in 1..Len(left) |->
     LET hits == SelectSeq(right, LAMBDA r : OnKey(r, on) = OnKey(left[i], on))
     IN [j \in 1..Len(hits) |-> left[i] @@ hits[j]]])

\* variant: the activity rollup is joined on student_id alone
MergeAll_LmsOnStudent(students_, att_term_, lms_term_, assessments_) ==
  InnerMerge(InnerMerge(InnerMerge(students_, att_term_, {"student_id"}),
                        lms_term_, {"student_id"}),
             assessments_, {"student_id", "term"})

\* students.merge(att_term).merge(lms_term).merge(assessments)
MergeAll(students_, att_term_, lms_term_, assessments_) ==
  InnerMerge(InnerMerge(InnerMerge(students_, att_term_, {"student_id"}),
                        lms_term_, {"student_id", "term"}),
             assessments_, {"student_id", "term"})

\* variant: method="min", equal values share the lowest rank of their group
RankFirst_TiesShareMin(vals, i) ==
  1 + Cardinality({j \in 1..Len(vals) : vals[j] < vals[i]})

\* Series.rank(method="first"): 1 + the number of smaller values + the number
\* of equal values on earlier rows
RankFirst(vals, i) ==
  1 + Cardinality({j \in 1..Len(vals) : vals[j] < vals[i]})
    + Cardinality({j \in 1..(i - 1) : vals[j] = vals[i]})

\* variant: the "+ 1" is forgotten, the labels are the bin codes 0..9
QcutDecile_ZeroBased(r, n) ==
  IF r = 1 THEN 0
  ELSE Cardinality({j \in 0..10 : (n - 1) * j < 10 * (r - 1)}) - 1

\* pd.qcut(ranks, 10, labels=False) + 1 on the ranks 1..n: the bin edges are the
\* quantiles 1 + (n-1)*j/10 (j = 0..10); a rank falls in the bin whose right
\* edge is the first edge >= it, and the lowest rank in the first bin.
QcutDecile(r, n) ==
  IF r = 1 THEN 1
  ELSE Cardinality({j \in 0..10 : (n - 1) * j < 10 * (r - 1)})

\* qcut raises ValueError unless the eleven edges are distinct
QcutRaises(n) == n < 2

\* variant: midterm <= 50 instead of midterm < 50
AtRisk_MidtermInclusive(row) ==
  (row.attendance_rate[1] * 100 < 80 * row.attendance_rate[2] \/ row.activity_decile <= 2)
  /\ row.midterm <= 50

\* main, the at_risk column
AtRisk(row) ==
  (row.attendance_rate[1] * 100 < 80 * row.attendance_rate[2] \/ row.activity_decile <= 2)
  /\ row.midterm < 50

\* the derived columns, in the order main adds them
Derive(joined) ==
  LET clicks == [i \in 1..Len(joined) |-> joined[i].clicks]
      s1 == [i \in 1..Len(joined) |->
               joined[i] @@ [attendance_rate |->
                               <<joined[i].attended, joined[i].total_sessions>>]]
      s2 == [i \in 1..Len(s1) |->
               s1[i] @@ [activity_decile |-> QcutDecile(RankFirst(clicks, i), Len(s1))]]
      s3 == [i \in 1..Len(s2) |->
               s2[i] @@ [on_time_rate |-> <<5 - s2[i].late_submissions, 5>>]]
  IN [i \in 1..Len(s3) |-> s3[i] @@ [at_risk |-> AtRisk(s3[i])]]

Windows == {<<2018, 2025>>, <<2019, 2024>>, <<2020, 2019>>}

ArgSpace ==
  [students : -1..MaxStudents, window : Windows, seed : 0..MaxSeed]

NoTable == [exists |-> FALSE, rows |-> <<>>]
NoPrev == [args |-> <<>>, db |-> <<>>, idx |-> <<>>, exit_code |-> -1]
NoCall == [fn |-> "none", arg |-> <<>>, out |-> <<>>, returned |-> FALSE]

Init ==
  /\ pc = "default_rng"
  /\ args \in ArgSpace
  /\ seed_used = -1
  /\ rng = 0
  /\ students = <<>> /\ attendance = <<>> /\ lms = <<>>
  /\ assessments = <<>> /\ events = <<>>
  /\ att_term = <<>> /\ lms_term = <<>> /\ df = <<>>
  /\ con = "none"
  /\ db = [t \in Tables |-> NoTable]
  /\ idx = [t \in Tables |-> {}]
  /\ exit_code = -1
  /\ log = <<>>
  /\ run = 1
  /\ prev = NoPrev
  /\ call = NoCall

(***************************************************************************)
(* main(), line 201: rng = np.random.default_rng(args.seed), the only      *)
(* generator of the run.                                                   *)
(***************************************************************************)
CreateRng ==
  /\ pc = "default_rng"
  /\ seed_used' = default_rng(args.seed)
  /\ rng' = 0
  /\ pc' = "make_students"
  /\ UNCHANGED <<args, frames, con, store, exit_code, run, prev, call>>

(***************************************************************************)
(* main(), lines 207-211: the five builders, in this order.                *)
(***************************************************************************)
MakeStudents ==
  /\ pc = "make_students"
  /\ IF args.students < 0
       THEN \* rng.choice(size=n) raises ValueError outside the try block
            /\ pc' = "done"
            /\ exit_code' = 1
            /\ UNCHANGED <<students, rng>>
       ELSE LET r == make_students(args.students, args.window, seed_used, rng)
            IN /\ students' = r.rows
               /\ rng' = r.pos
               /\ pc' = "make_attendance"
               /\ UNCHANGED exit_code
  /\ UNCHANGED <<args, seed_used, attendance, lms, assessments, events,
                 att_term, lms_term, df, con, store, run, prev, call>>

MakeAttendance ==
  /\ pc = "make_attendance"
  /\ LET r == make_attendance(students, seed_used, rng)
     IN attendance' = r.rows /\ rng' = r.pos
  /\ pc' = "make_lms_activity"
  /\ UNCHANGED <<args, seed_used, students, lms, assessments, events,
                 att_term, lms_term, df, con, store, exit_code, run, prev, call>>

MakeLmsActivity ==
  /\ pc = "make_lms_activity"
  /\ LET r == make_lms_activity(students, seed_used, rng)
     IN lms' = r.rows /\ rng' = r.pos
  /\ pc' = "make_assessments"
  /\ UNCHANGED <<args, seed_used, students, attendance, assessments, events,
                 att_term, lms_term, df, con, store, exit_code, run, prev, call>>

MakeAssessments ==
  /\ pc = "make_assessments"
  /\ LET r == make_assessments(students, seed_used, rng)
     IN assessments' = r.rows /\ rng' = r.pos
  /\ pc' = "make_events"
  /\ UNCHANGED <<args, seed_used, students, attendance, lms, events,
                 att_term, lms_term, df, con, store, exit_code, run, prev, call>>

MakeEvents ==
  /\ pc = "make_events"
  /\ LET r == make_events(students, seed_used, rng)
     IN events' = r.rows /\ rng' = r.pos
  /\ pc' = "connect"
  /\ UNCHANGED <<args, seed_used, students, attendance, lms, assessments,
                 att_term, lms_term, df, con, store, exit_code, run, prev, call>>

(***************************************************************************)
(* main(), line 213: con = sqlite3.connect(args.db), before the try block. *)
(***************************************************************************)
Connect ==
  /\ pc = "connect"
  /\ \E opened \in BOOLEAN :
       IF opened
         THEN con' = "open" /\ pc' = "write_students" /\ UNCHANGED exit_code
         ELSE \* sqlite3.OperationalError, not caught
              con' = con /\ pc' = "done" /\ exit_code' = 1
  /\ UNCHANGED <<args, seed_used, rng, frames, store, run, prev, call>>

(***************************************************************************)
(* write_sqlite: df.to_sql(name, conn, if_exists="replace") and then one   *)
(* CREATE INDEX per listed column.  Either statement may raise.            *)
(***************************************************************************)
\* what to_sql stores: timestamps as text, booleans as 0/1
\* the values df.to_sql stores for the rows of a frame
sql_values(name, rows) ==
  IF name = "students"
    THEN [i \in 1..Len(rows) |->
            [rows[i] EXCEPT !.enrol_date = isoformat(rows[i].enrol_date)]]
  ELSE IF name = "student_events"
    THEN [i \in 1..Len(rows) |->
            [rows[i] EXCEPT !.event_date = isoformat(rows[i].event_date)]]
  ELSE IF name = "analytic_student_term"
    THEN [i \in 1..Len(rows) |->
            [rows[i] EXCEPT !.enrol_date = isoformat(rows[i].enrol_date),
                            !.at_risk = IF rows[i].at_risk THEN 1 ELSE 0]]
  ELSE rows

\* variant: if_exists="append", the rows are added to those the table holds
to_sql_append(name, rows) ==
  (IF db[name].exists THEN db[name].rows ELSE <<>>) \o sql_values(name, rows)

\* df.to_sql(name, conn, if_exists="replace", index=False): the table is
\* dropped and created again with the rows of the frame
to_sql(name, rows) == sql_values(name, rows)

WriteOutcomes == {"ok", "to_sql_raises", "create_index_raises"}

write_sqlite(name, rows, idx_cols, outcome) ==
  /\ db' = IF outcome = "to_sql_raises" THEN db
           ELSE [db EXCEPT ![name] = [exists |-> TRUE, rows |-> to_sql(name, rows)]]
  /\ idx' = IF outcome = "to_sql_raises" THEN idx
            ELSE [idx EXCEPT ![name] = IF outcome = "ok" THEN idx_cols ELSE {}]
  /\ log' = Append(log, <<name, outcome>>)

\* one write_sqlite call of the try block: on an exception control goes to
\* the except clause
\* variant: the exception of a failed write is swallowed and main carries on
WriteStep_Swallows(here, name, rows, idx_cols, next) ==
  /\ pc = here
  /\ \E outcome \in WriteOutcomes : write_sqlite(name, rows, idx_cols, outcome)
  /\ pc' = next
  /\ UNCHANGED <<args, seed_used, rng, frames, con, exit_code, run, prev, call>>

WriteStep(here, name, rows, idx_cols, next) ==
  /\ pc = here
  /\ \E outcome \in WriteOutcomes :
       /\ write_sqlite(name, rows, idx_cols, outcome)
       /\ pc' = IF outcome = "ok" THEN next ELSE "except"
  /\ UNCHANGED <<args, seed_used, rng, frames, con, exit_code, run, prev, call>>

WriteStudents ==
  WriteStep("write_students", "students", students,
            {"student_id", "program", "intake", "full_name"}, "write_attendance")

WriteAttendance ==
  WriteStep("write_attendance", "attendance", attendance,
            {"student_id", "term", "week"}, "write_lms_activity")

WriteLmsActivity ==
  WriteStep("write_lms_activity", "lms_activity", lms,
            {"student_id", "activity_date"}, "write_assessments")

WriteAssessments ==
  WriteStep("write_assessments", "assessments", assessments,
            {"student_id", "term"}, "write_student_events")

WriteStudentEvents ==
  WriteStep("write_student_events", "student_events", events,
            {"student_id", "event_date", "event_type"}, "rollup_attendance")

\* lines 224-226
RollupAttendance ==
  /\ pc = "rollup_attendance"
  /\ att_term' = AttendanceTerm(attendance)
  /\ pc' = "write_attendance_term"
  /\ UNCHANGED <<args, seed_used, rng, students, attendance, lms, assessments, events,
                 lms_term, df, con, store, exit_code, run, prev, call>>

WriteAttendanceTerm ==
  WriteStep("write_attendance_term", "attendance_term", att_term,
            {"student_id", "term"}, "rollup_lms")

\* lines 229-238; pd.concat raises ValueError on an empty list of pieces
RollupLms ==
  /\ pc = "rollup_lms"
  /\ lms' = LmsParsed(lms)
  /\ LET pieces == LmsPieces(lms', att_term)
     IN IF Len(pieces) = 0
          THEN pc' = "except" /\ UNCHANGED lms_term
          ELSE pc' = "write_lms_term" /\ lms_term' = Flatten(pieces)
  /\ UNCHANGED <<args, seed_used, rng, students, attendance, assessments, events,
                 att_term, df, con, store, exit_code, run, prev, call>>

WriteLmsTerm ==
  WriteStep("write_lms_term", "lms_term", lms_term,
            {"student_id", "term"}, "join")

\* lines 241-248
Join ==
  /\ pc = "join"
  /\ LET joined == MergeAll(students, att_term, lms_term, assessments)
     IN IF QcutRaises(Len(joined))
          THEN pc' = "except" /\ UNCHANGED df
          ELSE pc' = "write_analytic" /\ df' = Derive(joined)
  /\ UNCHANGED <<args, seed_used, rng, students, attendance, lms, assessments, events,
                 att_term, lms_term, con, store, exit_code, run, prev, call>>

WriteAnalytic ==
  WriteStep("write_analytic", "analytic_student_term", df,
            {"student_id", "term", "program", "intake"}, "sanity")

\* lines 254-259: the row counts are printed and main returns 0
Sanity ==
  /\ pc = "sanity"
  /\ exit_code' = 0
  /\ pc' = "finally"
  /\ UNCHANGED <<args, seed_used, rng, frames, con, store, run, prev, call>>

\* lines 260-262: except Exception: return 1
Except ==
  /\ pc = "except"
  /\ exit_code' = 1
  /\ pc' = "finally"
  /\ UNCHANGED <<args, seed_used, rng, frames, con, store, run, prev, call>>

\* variant: con.close() sits at the end of the try block, not in a finally clause
Finally_ClosesOnSuccessOnly ==
  /\ pc = "finally"
  /\ con' = IF exit_code = 0 THEN "closed" ELSE con
  /\ pc' = "done"
  /\ UNCHANGED <<args, seed_used, rng, frames, store, exit_code, run, prev, call>>

\* lines 263-265: finally: con.close()
Finally ==
  /\ pc = "finally"
  /\ con' = "closed"
  /\ pc' = "done"
  /\ UNCHANGED <<args, seed_used, rng, frames, store, exit_code, run, prev, call>>

Next ==
  \/ CreateRng
  \/ MakeStudents \/ MakeAttendance \/ MakeLmsActivity \/ MakeAssessments
  \/ MakeEvents \/ Connect
  \/ WriteStudents \/ WriteAttendance \/ WriteLmsActivity \/ WriteAssessments
  \/ WriteStudentEvents \/ RollupAttendance \/ WriteAttendanceTerm
  \/ RollupLms \/ WriteLmsTerm \/ Join \/ WriteAnalytic
  \/ Sanity \/ Except \/ Finally

Spec == Init /\ [][Next]_vars

(***************************************************************************)
(* Running the loader again on the same database file.  The process that   *)
(* ended is replaced by a new one: its frames are gone, the file stays.    *)
(***************************************************************************)
\* a database left by some earlier program: every table present, one old row
StaleTable == [exists |-> TRUE, rows |-> <<[stale |-> TRUE]>>]

InitRerun ==
  /\ pc = "default_rng"
  /\ args \in [students : 1..MaxStudents, window : {<<2018, 2025>>}, seed : 0..MaxSeed]
  /\ seed_used = -1
  /\ rng = 0
  /\ students = <<>> /\ attendance = <<>> /\ lms = <<>>
  /\ assessments = <<>> /\ events = <<>>
  /\ att_term = <<>> /\ lms_term = <<>> /\ df = <<>>
  /\ con = "none"
  /\ \E old \in {NoTable, StaleTable} :
       /\ db = [t \in Tables |-> old]
       /\ idx = [t \in Tables |-> IF old.exists THEN {"stale"} ELSE {}]
  /\ exit_code = -1
  /\ log = <<>>
  /\ run = 1
  /\ prev = NoPrev
  /\ call = NoCall

Restart ==
  /\ pc = "done"
  /\ exit_code = 0
  /\ run < MaxRuns
  /\ args' \in {args, [args EXCEPT !.seed = (args.seed + 1) % (MaxSeed + 1)]}
  /\ seed_used' = -1
  /\ prev' = [args |-> args, db |-> db, idx |-> idx, exit_code |-> exit_code]
  /\ run' = run + 1
  /\ pc' = "default_rng"
  /\ rng' = 0
  /\ students' = <<>> /\ attendance' = <<>> /\ lms' = <<>>
  /\ assessments' = <<>> /\ events' = <<>>
  /\ att_term' = <<>> /\ lms_term' = <<>> /\ df' = <<>>
  /\ con' = "none"
  /\ exit_code' = -1
  /\ log' = <<>>
  /\ UNCHANGED <<db, idx, call>>

NextRerun == Next \/ Restart

SpecRerun == InitRerun /\ [][NextRerun]_vars

(***************************************************************************)
(* Single calls of the pure functions, on inputs drawn from bounded sets.  *)
(* No loader process runs in these specifications.                         *)
(***************************************************************************)
NoProcess ==
  /\ pc = "idle"
  /\ args = [students |-> 0, window |-> <<0, 0>>, seed |-> 0]
  /\ seed_used = -1
  /\ rng = 0
  /\ students = <<>> /\ attendance = <<>> /\ lms = <<>>
  /\ assessments = <<>> /\ events = <<>>
  /\ att_term = <<>> /\ lms_term = <<>> /\ df = <<>>
  /\ con = "none"
  /\ db = [t \in Tables |-> NoTable]
  /\ idx = [t \in Tables |-> {}]
  /\ exit_code = -1
  /\ log = <<>>
  /\ run = 1
  /\ prev = NoPrev

process == <<pc, args, seed_used, rng, frames, con, store, exit_code, run, prev>>

\* the intakes and program names all_terms_for_program is called on: the
\* years of the default window, the three programs and one unknown name
CallYears == 2012..2025
CallPrograms == {"Medicine", "Nursing", "Pharmacy", "Dentistry"}

InitTerms ==
  /\ NoProcess
  /\ call \in [fn : {"all_terms_for_program"},
               arg : [intake : CallYears \X {"Sep", "Jan"}, program : CallPrograms],
               out : {<<>>}, returned : {FALSE}]

CallAllTerms ==
  /\ call.fn = "all_terms_for_program"
  /\ ~call.returned
  /\ call' = [call EXCEPT
                !.out = all_terms_for_program(call.arg.intake, call.arg.program,
                                              PROGRAM_DURATION),
                !.returned = TRUE]
  /\ UNCHANGED process

SpecTerms == InitTerms /\ [][CallAllTerms]_vars

\* the namespace built from the first SylCut syllables of each list
CutSyllables ==
  [f |-> SubSeq(first_syl, 1, SylCut),
   l1 |-> SubSeq(last_syl1, 1, SylCut),
   l2 |-> SubSeq(last_syl2, 1, SylCut)]

InitNames ==
  /\ NoProcess
  /\ call \in [fn : {"make_students"},
               arg : [syl : {CutSyllables}, n : 0..NamespaceSize(CutSyllables),
                      window : Windows, seed : 0..MaxSeed],
               out : {<<>>}, returned : {FALSE}]

CallMakeStudents ==
  /\ call.fn = "make_students"
  /\ ~call.returned
  /\ call' = [call EXCEPT
                !.out = make_students_in(call.arg.syl, call.arg.n, call.arg.window,
                                         default_rng(call.arg.seed), 0).rows,
                !.returned = TRUE]
  /\ UNCHANGED process

SpecNames == InitNames /\ [][CallMakeStudents]_vars

(***************************************************************************)
(* The while loop of unique_names, one iteration per step, the generator   *)
(* returning any value of its range at each draw (a few values of each     *)
(* range are enumerated).                                                  *)
(***************************************************************************)
\* a namespace of two combinations
LoopSyllables ==
  [f |-> SubSeq(first_syl, 1, 2), l1 |-> SubSeq(last_syl1, 1, 1),
   l2 |-> SubSeq(last_syl2, 1, 1)]

\* values rng.choice(middle) may return
DrawMiddle == {middle[1], middle[2]}

\* values rng.integers(1, 9999) may return
DrawSuffix == {1, 2}

\* the number of iterations the loop is followed for
MaxIter == RetryFactor * MaxNames + 2 * NamespaceSize(LoopSyllables) + 2

InitLoop ==
  /\ NoProcess
  /\ call \in [fn : {"unique_names"},
               arg : [syl : {LoopSyllables}, n : 0..MaxNames, seed : 0..MaxSeed,
                      st : {[i |-> 0, out |-> <<>>, used |-> {}, pos |-> 2]}],
               out : {<<>>}, returned : {FALSE}]

\* lines 82-96: one iteration, taken while len(out) < n
NameStep ==
  /\ call.fn = "unique_names"
  /\ ~call.returned
  /\ Len(call.arg.st.out) < call.arg.n
  /\ call.arg.st.i < MaxIter
  /\ \E mid \in DrawMiddle, suffix \in DrawSuffix :
       LET len == NamespaceSize(call.arg.syl)
           combo == Combo(call.arg.syl,
                          ShuffledIndex(len, call.arg.seed, 0, call.arg.st.i % len))
       IN call' = [call EXCEPT
                     !.arg.st = NameIterWith(call.arg.syl, combo, mid, suffix, call.arg.st)]
  /\ UNCHANGED process

\* line 97: return out[:n]
NameReturn ==
  /\ call.fn = "unique_names"
  /\ ~call.returned
  /\ Len(call.arg.st.out) >= call.arg.n
  /\ call' = [call EXCEPT !.out = Prefix(call.arg.st.out, call.arg.n), !.returned = TRUE]
  /\ UNCHANGED process

NextLoop == NameStep \/ NameReturn

SpecLoop == InitLoop /\ [][NextLoop]_vars

(***************************************************************************)
(* Properties.                                                             *)
(***************************************************************************)
\* what the previous term's last day and the next term's first day are
Chronological(terms) ==
  \A i \in 1..(Len(terms) - 1) :
     /\ DateLeq(term_dates(terms[i])[2], term_dates(terms[i + 1])[1])
     /\ term_dates(terms[i])[2] # term_dates(terms[i + 1])[1]

\* C1: for every intake 'Y-Sep' / 'Y-Jan' and every program name,
\* all_terms_for_program returns exactly n_years (Fall, Spring) pairs in
\* chronological order, n_years being the program's duration (4 for a name
\* that is not in the table), the k-th pair being (f+k)-Fall, (f+k+1)-Spring
\* with f = Y for Sep and f = Y-1 for Jan; 2019-Jan with duration 4 gives
\* 2018-Fall, 2019-Spring, ..., 2021-Fall, 2022-Spring.
C1_AllTermsForProgram ==
  (call.fn = "all_terms_for_program" /\ call.returned) =>
    LET Y == call.arg.intake[1]
        f == IF call.arg.intake[2] = "Sep" THEN Y ELSE Y - 1
        n_years == CASE call.arg.program = "Medicine" -> 6
                     [] call.arg.program = "Nursing" -> 4
                     [] call.arg.program = "Pharmacy" -> 5
                     [] OTHER -> 4
        out == call.out
    IN /\ Len(out) = 2 * n_years
       /\ \A k \in 0..(n_years - 1) :
            /\ out[2 * k + 1] = <<f + k, "Fall">>
            /\ out[2 * k + 2] = <<f + k + 1, "Spring">>
       /\ Chronological(out)
       /\ (call.arg.intake = <<2019, "Jan">> /\ n_years = 4) =>
            out = << <<2018, "Fall">>, <<2019, "Spring">>, <<2019, "Fall">>,
                     <<2020, "Spring">>, <<2020, "Fall">>, <<2021, "Spring">>,
                     <<2021, "Fall">>, <<2022, "Spring">> >>

\* C1 witness: the call on 2019-Jan and a program name outside the table has
\* returned eight terms.
C1_Witness ==
  /\ call.fn = "all_terms_for_program" /\ call.returned
  /\ call.arg.intake = <<2019, "Jan">>
  /\ call.arg.program = "Dentistry"
  /\ Len(call.out) = 8

\* the "first last" strings of the combinations of the three full lists
NamespaceCandidates ==
  {Combo(Syllables, j)[1] \o "na " \o Combo(Syllables, j)[2] :
     j \in 0..(NamespaceSize(Syllables) - 1)}

\* C7: for every count n up to the size of the namespace, unique_names gives
\* make_students exactly n pairwise distinct names, and the student_id values
\* are exactly 1..n; the three full syllable lists give 26 x 25 x 21
\* combinations, no two of which spell the same first and last name.
C7_NamesUnique ==
  (call.fn = "make_students" /\ call.returned
     /\ call.arg.n <= NamespaceSize(call.arg.syl)) =>
    /\ NamespaceSize(Syllables) = 26 * 25 * 21
    /\ Cardinality(NamespaceCandidates) = 26 * 25 * 21
    /\ Len(call.out) = call.arg.n
    /\ \A i, j \in 1..Len(call.out) :
         i # j => call.out[i].full_name # call.out[j].full_name
    /\ \A i \in 1..Len(call.out) : call.out[i].student_id = i

\* C7 witness: a roster as large as the whole namespace has been generated.
C7_Witness ==
  /\ call.fn = "make_students" /\ call.returned
  /\ call.arg.n = NamespaceSize(call.arg.syl)
  /\ Len(call.out) = NamespaceSize(call.arg.syl)
  /\ Len(call.out) > 1

\* the rows a table of the database file holds
Rows(t) == db[t].rows

Succeeded == pc = "done" /\ exit_code = 0

\* the terms for which table t holds rows of student sid
TermsIn(t, sid) ==
  {Rows(t)[i].term : i \in {j \in 1..Len(Rows(t)) : Rows(t)[j].student_id = sid}}

\* every Fall/Spring pair from the first resolved term of a student to the last
ResolvedTermSet(s) ==
  LET f == IF s.intake[2] = "Sep" THEN s.intake[1] ELSE s.intake[1] - 1
      d == PROGRAM_DURATION[s.program]
  IN {<<y, "Fall">> : y \in f..(f + d - 1)} \cup {<<y, "Spring">> : y \in (f + 1)..(f + d)}

\* C2: after a successful run every student has rows for exactly
\* 2 x PROGRAM_DURATION[program] distinct terms in attendance, assessments and
\* analytic_student_term, and those terms are exactly the student's resolved
\* terms, none missing and none extra.
C2_TermCoverage ==
  Succeeded =>
    \A i \in 1..Len(Rows("students")) :
      LET s == Rows("students")[i]
      IN \A t \in {"attendance", "assessments", "analytic_student_term"} :
           /\ Cardinality(TermsIn(t, s.student_id)) = 2 * PROGRAM_DURATION[s.program]
           /\ TermsIn(t, s.student_id) = ResolvedTermSet(s)

\* C2 witness: a successful run with a Medicine student who has twelve terms
\* in the analytic table and a student who entered in January.
C2_Witness ==
  /\ Succeeded
  /\ \E i \in 1..Len(Rows("students")) :
       /\ Rows("students")[i].program = "Medicine"
       /\ Cardinality(TermsIn("analytic_student_term", i)) = 12
  /\ \E i \in 1..Len(Rows("students")) : Rows("students")[i].intake[2] = "Jan"

\* C3: on every stored row of analytic_student_term the stored at_risk is
\* (attendance_rate < 0.80 OR activity_decile <= 2) AND midterm < 50 computed
\* from the stored attendance_rate, activity_decile and midterm of that row.
C3_AtRiskFromStoredColumns ==
  db["analytic_student_term"].exists =>
    \A i \in 1..Len(Rows("analytic_student_term")) :
      LET r == Rows("analytic_student_term")[i]
          formula == (r.attendance_rate[1] * 100 < 80 * r.attendance_rate[2]
                        \/ r.activity_decile <= 2)
                     /\ r.midterm < 50
      IN r.at_risk = (IF formula THEN 1 ELSE 0)

\* C3 witness: the stored table holds a flagged row, and an unflagged row whose
\* midterm is exactly 50 while its attendance is below 0.80 or its decile is at
\* most 2.
C3_Witness ==
  /\ db["analytic_student_term"].exists
  /\ \E i, k \in 1..Len(Rows("analytic_student_term")) :
       /\ Rows("analytic_student_term")[i].at_risk = 1
       /\ Rows("analytic_student_term")[k].at_risk = 0
       /\ Rows("analytic_student_term")[k].midterm = 50
       /\ \/ Rows("analytic_student_term")[k].attendance_rate[1] * 100
              < 80 * Rows("analytic_student_term")[k].attendance_rate[2]
          \/ Rows("analytic_student_term")[k].activity_decile <= 2

\* the stored weekly attendance rows of one (student, term)
WeeklyRows(sid, term) ==
  SelectSeq(Rows("attendance"), LAMBDA r : r.student_id = sid /\ r.term = term)

\* C4: on every row of analytic_student_term 0 <= attendance_rate <= 1 and
\* 1 <= activity_decile <= 10; attendance_rate is the sum of attended over the
\* sum of sessions of the 12 weekly rows of that (student, term), each with
\* sessions = 5 and 0 <= attended <= sessions, so total_sessions is 60.
C4_RateAndDecileRanges ==
  Succeeded =>
    \A i \in 1..Len(Rows("analytic_student_term")) :
      LET r == Rows("analytic_student_term")[i]
          w == WeeklyRows(r.student_id, r.term)
          num == r.attendance_rate[1]
          den == r.attendance_rate[2]
      IN /\ den > 0 /\ 0 <= num /\ num <= den
         /\ 1 <= r.activity_decile /\ r.activity_decile <= 10
         /\ Len(w) = 12
         /\ \A k \in 1..Len(w) :
              w[k].sessions = 5 /\ 0 <= w[k].attended /\ w[k].attended <= w[k].sessions
         /\ r.total_sessions = 60
         /\ num * SumSeq([k \in 1..Len(w) |-> w[k].sessions])
              = den * SumSeq([k \in 1..Len(w) |-> w[k].attended])

\* C4 witness: a successful run whose analytic table has rows in decile 1 and
\* in decile 10.
C4_Witness ==
  /\ Succeeded
  /\ \E i, j \in 1..Len(Rows("analytic_student_term")) :
       /\ Rows("analytic_student_term")[i].activity_decile = 1
       /\ Rows("analytic_student_term")[j].activity_decile = 10

\* the (student_id, term) pairs of a stored table
Pairs(t) == {<<Rows(t)[i].student_id, Rows(t)[i].term>> : i \in 1..Len(Rows(t))}

ConfigError == args.window[2] < args.window[1] \/ args.students <= 0

\* C8: with year_end < year_start or a student count that is not positive the
\* run ends with a non-zero exit code, generates no student or event row and
\* writes or replaces no table.
C8_ConfigErrorsRejected ==
  ConfigError =>
    /\ Len(students) = 0 /\ Len(events) = 0
    /\ log = <<>>
    /\ \A t \in Tables : ~db[t].exists
    /\ pc = "done" => exit_code # 0

\* the tables of the write_sqlite calls made so far, in call order
Attempted == [i \in 1..Len(log) |-> log[i][1]]

\* C9: the tables are written in the order students, attendance, lms_activity,
\* assessments, student_events, attendance_term, lms_term,
\* analytic_student_term; after a failed write no further write is attempted
\* and main returns non-zero; main returns 0 only if all eight were written.
C9_WriterFailureIsFatal ==
  /\ Len(log) <= Len(TableOrder)
  /\ Attempted = SubSeq(TableOrder, 1, Len(log))
  /\ \A i \in 1..Len(log) :
       log[i][2] # "ok" => (i = Len(log) /\ exit_code # 0 /\ (pc = "done" => exit_code > 0))
  /\ exit_code = 0 =>
       (Len(log) = Len(TableOrder) /\ \A i \in 1..Len(log) : log[i][2] = "ok")

\* C9 witness: a run has ended with exit code 1 after the write of the fourth
\* table failed, and the last four writes were never attempted.
C9_Witness ==
  /\ pc = "done" /\ exit_code = 1
  /\ Len(log) = 4
  /\ log[4][2] # "ok"

\* C10: once the connection has been opened, main does not end with it open:
\* whether the writes succeed or a write or a rollup fails, it is closed.
C10_ConnectionClosed ==
  /\ pc = "done" => con # "open"
  /\ con = "open" => pc \notin {"default_rng", "make_students", "make_attendance",
                                "make_lms_activity", "make_assessments", "make_events",
                                "connect", "done", "idle"}
  /\ (pc = "done" /\ Len(log) > 0) => con = "closed"

\* C10 witness: a run in which a rollup failed has ended with the connection
\* closed.
C10_Witness ==
  /\ pc = "done" /\ exit_code = 1 /\ con = "closed"
  /\ Len(log) = 6
  /\ \A i \in 1..Len(log) : log[i][2] = "ok"

\* the longest program of the duration table
MaxDuration == 6

\* the window of the run allows the longest program to end by year_end
Feasible == args.window[1] + MaxDuration <= args.window[2]

\* the calendar years of the terms for which table t holds rows of student sid
TermYearsIn(t, sid) == {term[1] : term \in TermsIn(t, sid)}

\* C11: in a window with year_start + longest duration <= year_end every
\* generated student has year_start <= intake year and intake year +
\* PROGRAM_DURATION[program] <= year_end, so after a successful run no stored
\* term of the student lies after year_end and none of the 2 x duration terms
\* is missing; in any other window every student's intake year is year_start.
C11_EnrollmentWindow ==
  /\ MaxDuration = Max2(Max2(PROGRAM_DURATION["Medicine"], PROGRAM_DURATION["Nursing"]),
                        PROGRAM_DURATION["Pharmacy"])
  /\ \A i \in 1..Len(students) :
       LET s == students[i]
       IN IF Feasible
            THEN /\ args.window[1] <= s.intake[1]
                 /\ s.intake[1] + PROGRAM_DURATION[s.program] <= args.window[2]
                 /\ Succeeded =>
                      \A t \in {"attendance", "assessments", "analytic_student_term"} :
                        /\ \A y \in TermYearsIn(t, s.student_id) : y <= args.window[2]
                        /\ Cardinality(TermsIn(t, s.student_id))
                             = 2 * PROGRAM_DURATION[s.program]
            ELSE s.intake[1] = args.window[1]

\* C11 witness: a successful run in a feasible window with a Medicine student
\* whose intake year is the latest one allowed, the last term being in year_end.
C11_Witness ==
  /\ Succeeded /\ Feasible
  /\ \E i \in 1..Len(students) :
       /\ students[i].program = "Medicine"
       /\ students[i].intake[1] = args.window[2] - MaxDuration
       /\ students[i].intake[1] > args.window[1]
       /\ args.window[2] \in TermYearsIn("analytic_student_term", i)

\* the idx_cols argument of the write_sqlite call of each table
ListedColumns ==
  [t \in Tables |->
     CASE t = "students" -> {"student_id", "program", "intake", "full_name"}
       [] t = "attendance" -> {"student_id", "term", "week"}
       [] t = "lms_activity" -> {"student_id", "activity_date"}
       [] t = "assessments" -> {"student_id", "term"}
       [] t = "student_events" -> {"student_id", "event_date", "event_type"}
       [] t = "attendance_term" -> {"student_id", "term"}
       [] t = "lms_term" -> {"student_id", "term"}
       [] t = "analytic_student_term" -> {"student_id", "term", "program", "intake"}]

\* the frames of the run in progress as the database stores them; activity_date
\* is text in lms_activity whether or not main has parsed the column since
GeneratedRows ==
  [t \in Tables |->
     CASE t = "students" -> sql_values(t, students)
       [] t = "attendance" -> attendance
       [] t = "lms_activity" ->
            [i \in 1..Len(lms) |->
               [lms[i] EXCEPT !.activity_date =
                  <<lms[i].activity_date[1], lms[i].activity_date[2],
                    lms[i].activity_date[3], "T00:00:00">>]]
       [] t = "assessments" -> assessments
       [] t = "student_events" -> sql_values(t, events)
       [] t = "attendance_term" -> att_term
       [] t = "lms_term" -> lms_term
       [] t = "analytic_student_term" -> sql_values(t, df)]

\* C12: after a successful run each of the eight tables holds exactly the rows
\* generated in that run, whatever it held before, and has one index per
\* listed column; a second run with the same seed and parameters leaves the
\* same rows and indexes as the first.
C12_ReplaceAndRerun ==
  Succeeded =>
    /\ \A t \in Tables :
         /\ db[t].exists
         /\ db[t].rows = GeneratedRows[t]
         /\ idx[t] = ListedColumns[t]
    /\ (run >= 2 /\ prev.exit_code = 0 /\ prev.args = args) =>
         (db = prev.db /\ idx = prev.idx)

\* C12 witness: a successful run over a database whose students table held
\* other rows, left by an earlier run with another seed.
C12_Witness ==
  /\ Succeeded
  /\ run >= 2 /\ prev.exit_code = 0 /\ prev.args # args
  /\ Len(prev.db["students"].rows) > 0
  /\ prev.db["students"].rows # db["students"].rows
  /\ Len(db["students"].rows) = args.students

\* the number of stored analytic rows of decile d
DecileCount(d) ==
  Cardinality({i \in 1..Len(Rows("analytic_student_term")) :
                 Rows("analytic_student_term")[i].activity_decile = d})

\* C13: the deciles come from one ranking of all joined rows by clicks: a row
\* with fewer clicks never has a higher decile than a row with more clicks,
\* among rows with equal clicks the earlier row never has the higher decile,
\* the row of lowest rank is in decile 1 and the row of highest rank in decile
\* 10, and the ten deciles hold the same number of rows, the counts differing
\* by at most one when the number of rows is not a multiple of 10.
C13_WholePopulationDeciles ==
  Succeeded =>
    LET an == Rows("analytic_student_term")
        N == Len(an)
    IN /\ \A i, j \in 1..N :
            /\ an[i].clicks < an[j].clicks => an[i].activity_decile <= an[j].activity_decile
            /\ (an[i].clicks = an[j].clicks /\ i < j)
                 => an[i].activity_decile <= an[j].activity_decile
       /\ \E i, j \in 1..N :
            /\ an[i].activity_decile = 1
            /\ \A k \in 1..N : an[i].clicks <= an[k].clicks
            /\ an[j].activity_decile = 10
            /\ \A k \in 1..N : an[k].clicks <= an[j].clicks
       /\ \A d, e \in 1..10 : DecileCount(d) <= DecileCount(e) + 1
       /\ N % 10 = 0 => \A d \in 1..10 : 10 * DecileCount(d) = N

\* C13 witness: a successful run whose analytic table holds rows of two
\* different terms in the same decile, and two rows with equal clicks in
\* different deciles, the row count not being a multiple of 10.
C13_Witness ==
  /\ Succeeded
  /\ Len(Rows("analytic_student_term")) % 10 # 0
  /\ \E i, j \in 1..Len(Rows("analytic_student_term")) :
       /\ i < j
       /\ Rows("analytic_student_term")[i].clicks = Rows("analytic_student_term")[j].clicks
       /\ Rows("analytic_student_term")[i].activity_decile
            < Rows("analytic_student_term")[j].activity_decile
  /\ \E i, j \in 1..Len(Rows("analytic_student_term")) :
       /\ Rows("analytic_student_term")[i].term # Rows("analytic_student_term")[j].term
       /\ Rows("analytic_student_term")[i].activity_decile
            = Rows("analytic_student_term")[j].activity_decile

\* the stored events of student sid, in stored order
EventsOf(sid) == SelectSeq(Rows("student_events"), LAMBDA e : e.student_id = sid)

\* the stored events of student sid whose type is in types
EventsOfType(sid, types) == SelectSeq(EventsOf(sid), LAMBDA e : e.event_type \in types)

\* a date as the database stores a timestamp
Stored(y, m, d) == <<y, m, d, "T00:00:00">>

\* C14: every student has exactly one Enrolled event, dated enrol_date and
\* tagged to the first resolved term; at most one On Probation event, 75 days
\* after enrol_date and tagged to the second resolved term; an Intervention
\* event only together with an On Probation event, 85 days after enrol_date and
\* with the same term; exactly one outcome event (Graduated, Withdrew or
\* Deferred) dated June 30 of the final resolved term, a Spring term, and tagged
\* to it; between 2 and 4 events in all.
C14_LifecycleEvents ==
  (db["student_events"].exists /\ db["students"].exists) =>
    \A i \in 1..Len(Rows("students")) :
      LET s == Rows("students")[i]
          Y == s.intake[1]
          sep == s.intake[2] = "Sep"
          f == IF sep THEN Y ELSE Y - 1
          d == PROGRAM_DURATION[s.program]
          leap == (Y % 4 = 0 /\ Y % 100 # 0) \/ Y % 400 = 0
          plus75 == IF sep THEN Stored(Y, 11, 15)
                    ELSE IF leap THEN Stored(Y, 3, 30) ELSE Stored(Y, 3, 31)
          plus85 == IF sep THEN Stored(Y, 11, 25)
                    ELSE IF leap THEN Stored(Y, 4, 9) ELSE Stored(Y, 4, 10)
          enr == EventsOfType(s.student_id, {"Enrolled"})
          prob == EventsOfType(s.student_id, {"On Probation"})
          int == EventsOfType(s.student_id, {"Intervention"})
          fin == EventsOfType(s.student_id, {"Graduated", "Withdrew", "Deferred"})
          all == EventsOf(s.student_id)
      IN /\ Len(enr) = 1
         /\ enr[1].event_date = s.enrol_date
         /\ enr[1].event_date = (IF sep THEN Stored(Y, 9, 1) ELSE Stored(Y, 1, 15))
         /\ enr[1].term = <<f, "Fall">>
         /\ Len(prob) <= 1
         /\ Len(prob) = 1 =>
              (prob[1].event_date = plus75 /\ prob[1].term = <<f + 1, "Spring">>)
         /\ Len(int) <= 1
         /\ Len(int) = 1 =>
              /\ Len(prob) = 1
              /\ int[1].event_date = plus85
              /\ int[1].term = prob[1].term
         /\ Len(fin) = 1
         /\ fin[1].event_date = Stored(f + d, 6, 30)
         /\ fin[1].term = <<f + d, "Spring">>
         /\ Len(all) = Len(enr) + Len(prob) + Len(int) + Len(fin)
         /\ 2 <= Len(all) /\ Len(all) <= 4

\* C14 witness: the stored events hold a student with all four events and a
\* student with two events only.
C14_Witness ==
  /\ db["student_events"].exists /\ db["students"].exists
  /\ \E i, j \in 1..Len(Rows("students")) :
       /\ Len(EventsOf(i)) = 4
       /\ Len(EventsOfType(i, {"On Probation"})) = 1
       /\ Len(EventsOfType(i, {"Intervention"})) = 1
       /\ Len(EventsOf(j)) = 2

\* C15: the loop of unique_names ends within a constant multiple of n
\* iterations whatever the generator returns (RetryFactor x n, with the two
\* passes over the namespace that precede the last resort allowed on top), and
\* within exactly n iterations when n is at most the size of the namespace.
C15_RetryCeiling ==
  call.fn = "unique_names" =>
    LET n == call.arg.n
        len == NamespaceSize(call.arg.syl)
    IN /\ call.arg.st.i <= RetryFactor * n + 2 * len + 1
       /\ (call.returned /\ n <= len) => call.arg.st.i = n

\* the loop has run past the ceiling with names still missing, and the last
\* resort has been rejecting candidates
C15_Stuck ==
  /\ call.fn = "unique_names" /\ ~call.returned
  /\ call.arg.st.i > RetryFactor * call.arg.n + 2 * NamespaceSize(call.arg.syl) + 1
  /\ Len(call.arg.st.out) < call.arg.n

\* the stored students whose intake is a January one
JanStudents ==
  {i \in 1..Len(Rows("students")) : Rows("students")[i].intake[2] = "Jan"}

\* term a is earlier than term b, or the same term
TermLeq(a, b) == a[1] < b[1] \/ (a[1] = b[1] /\ (a[2] = "Spring" \/ b[2] = "Fall"))

\* C16: for every student of intake Y-Jan (enrol_date Jan 15 of Y) the earliest
\* term with attendance, activity or assessment rows is Y-Spring, and there is
\* no row for a term that ends before the enrol_date.
C16_JanFirstActiveTerm ==
  db["students"].exists =>
    \A i \in JanStudents :
      LET s == Rows("students")[i]
          Y == s.intake[1]
      IN /\ s.enrol_date = Stored(Y, 1, 15)
         /\ \A t \in {"attendance", "assessments"} :
              db[t].exists =>
                /\ <<Y, "Spring">> \in TermsIn(t, s.student_id)
                /\ \A term \in TermsIn(t, s.student_id) :
                     /\ TermLeq(<<Y, "Spring">>, term)
                     /\ DateLeq(<<Y, 1, 15>>, term_dates(term)[2])
         /\ db["lms_activity"].exists =>
              \A k \in 1..Len(Rows("lms_activity")) :
                Rows("lms_activity")[k].student_id = s.student_id
                  => Rows("lms_activity")[k].activity_date[1] >= Y

\* a January entrant of year Y has stored attendance, activity and assessment
\* rows of the Fall term of year Y - 1
C16_RowsBeforeEnrolment ==
  /\ db["students"].exists /\ db["attendance"].exists
  /\ db["lms_activity"].exists /\ db["assessments"].exists
  /\ \E i \in JanStudents :
       LET s == Rows("students")[i]
           before == <<s.intake[1] - 1, "Fall">>
       IN /\ before \in TermsIn("attendance", s.student_id)
          /\ before \in TermsIn("assessments", s.student_id)
          /\ \E k \in 1..Len(Rows("lms_activity")) :
               /\ Rows("lms_activity")[k].student_id = s.student_id
               /\ Rows("lms_activity")[k].activity_date[1] = s.intake[1] - 1

====
